---------------------------- MODULE Spec2Model ----------------------------
(***************************************************************************)
(* Model of tools/export-qwen3-onnx/export_qwen3_asr_onnx.py:              *)
(*   - the decoder graph's forward pass (KV cache growth, causal mask),    *)
(*     with tensors abstracted to symbolic terms that record exactly what  *)
(*     each value was computed from;                                       *)
(*   - the export run of main(): weight binding, graph export, numerical   *)
(*     validation, embedding export, tokenizer copy, manifest.             *)
(***************************************************************************)
EXTENDS Integers, Sequences, FiniteSets, TLC

(***************************************************************************)
(* Bounds of the model.                                                    *)
(***************************************************************************)
\* cfg["dec_layers"] (28 in the shipped model) and cfg["enc_layers"]
dec_layers == 2
enc_layers == 2
\* longest cache a generation session grows to
MaxTotal == 6
\* number of distinct token embeddings fed to the decoder
NumTokens == 2
\* how many weight names may be absent from the store
MaxMissing == 1
\* rows and columns of the token embedding matrix (text_config vocab_size, hidden_size)
vocab_size == 3
hidden_size == 2
\* longest mel input, in frames
MaxFrames == 208
\* channels of the convolutional stem (enc_downsample_hidden)
enc_downsample_hidden == 2
\* largest key/value head count and largest query-heads-per-kv-head ratio
MaxKVHeads == 3
MaxRatio == 3

Tokens == 1..NumTokens

VARIABLES
    \* ---- decoder session (a caller threading the cache through forward)
    past_kvs,      \* the 2*dec_layers cache tensors the caller holds
    toks,          \* every token fed in this session, in order
    steps,         \* the step length S of every call of this session
    logits_hist,   \* the logits rows returned so far, in order
    lastPast,      \* past_kv_flat argument of the last call
    lastS,         \* S of the last call (0: no call yet)
    lastOut,       \* (logits, *present_kvs) returned by the last call
    lastMasks,     \* causal_mask built by each layer in the last call
    \* ---- export run (main)
    pc,            \* next statement group of main
    skip_validation, \* args.skip_validation
    missing,       \* required tensor names absent from the safetensors store
    dtype,         \* the dtype the checkpoint's tensors are stored in
    weight_dtypes, \* the dtypes of the tensors get_weight has returned so far
    embed_bytes,   \* byte length of embed_tokens.bin (-1: not written)
    encoder,       \* the encoder module: [alive, params]
    decoder,       \* the decoder module: [alive, params]
    fetched,       \* names passed to get_tensor so far, in order
    files,         \* artifacts written to output_dir by this run
    serialized,    \* per written graph file: the params it was traced with
    dec_io,        \* names given to torch.onnx.export / sess.run
    enc_diff,      \* per-output max abs diff, encoder validation
    dec_diffs,     \* per-output max abs diff, decoder validation
    warnings,      \* tokenizer files reported missing
    manifest,      \* the files listed by the final "Export complete" print
    error,         \* the uncaught exception, if any
    exitcode,      \* process exit status (-1: still running)
    \* ---- single calls of the encoder stem and of one attention layer
    mel_frames,    \* T of the mel input [1, 128, T] (0: none)
    stem,          \* shapes seen by Qwen3ASREncoder.forward up to conv_out
    head_cfg,      \* [n_heads, n_kv_heads] a DecoderLayer was built with
    gqa            \* heads seen by DecoderLayer.forward around the expansion

decVars == <<past_kvs, toks, steps, logits_hist, lastPast, lastS, lastOut, lastMasks>>
runVars == <<pc, skip_validation, missing, dtype, weight_dtypes, embed_bytes, encoder, decoder, fetched, files,
             serialized, dec_io, enc_diff, dec_diffs, warnings, manifest, error, exitcode>>
shapeVars == <<mel_frames, stem, head_cfg, gqa>>
vars == <<past_kvs, toks, steps, logits_hist, lastPast, lastS, lastOut, lastMasks,
          pc, skip_validation, missing, dtype, weight_dtypes, embed_bytes, encoder, decoder, fetched, files,
          serialized, dec_io, enc_diff, dec_diffs, warnings, manifest, error, exitcode,
          mel_frames, stem, head_cfg, gqa>>

(***************************************************************************)
(* Decoder graph.                                                          *)
(*                                                                         *)
(* A hidden row is a term: [emb |-> t] for an input embedding, and         *)
(* [res |-> h, q_pos |-> p, att |-> <<...>>] for a layer's output, where h *)
(* is the row's input (the residual) and att lists, in key order, the      *)
(* cache entries that received non-zero attention weight, each identified  *)
(* by the token and RoPE position of its key and the token of its value.   *)
(* A key entry is [k |-> h, pos |-> p] (k_proj of row h, rotated at        *)
(* position p), a value entry is [v |-> h].                                *)
(***************************************************************************)
NegInf == "-inf"
Zero == "0"

\* variant: diagonal=total_len - S (a query's own position is masked)
CausalMask_offbyone(S, total_len) ==
    [q \in 0..(S - 1) |->
        [j \in 0..(total_len - 1) |->
            IF j - q >= total_len - S THEN NegInf ELSE Zero]]

\* variant: diagonal=1 (the past length is ignored)
CausalMask_nooffset(S, total_len) ==
    [q \in 0..(S - 1) |->
        [j \in 0..(total_len - 1) |->
            IF j - q >= 1 THEN NegInf ELSE Zero]]

\* torch.triu(torch.full((S, total_len), -inf), diagonal=total_len - S + 1):
\* entry (q, j) keeps -inf when j - q >= diagonal and is zeroed otherwise.
CausalMask(S, total_len) ==
    [q \in 0..(S - 1) |->
        [j \in 0..(total_len - 1) |->
            IF j - q >= total_len - S + 1 THEN NegInf ELSE Zero]]

\* variant: the new entries replace the cache
CatPast_replace(past, new) == new

\* variant: torch.cat([new, past], dim=2)
CatPast_prepend(past, new) == new \o past

\* torch.cat([past, new], dim=2)
CatPast(past, new) == past \o new

\* a sequence built row by row, held as a concrete tuple of its rows
Rows(f) == f \o <<>>

\* the input embedding a hidden row descends from through the residual path
RECURSIVE Root(_)
Root(h) == IF "emb" \in DOMAIN h THEN h.emb ELSE Root(h.res)

\* softmax(attn_weights + mask) @ v for one query row: the cache entries whose
\* mask value is not -inf, in key order (exp(-inf) = 0 drops the others)
Attend(k, v, mask_row) ==
    LET idx == SelectSeq([j \in 1..Len(k) |-> j - 1], LAMBDA j : mask_row[j] # NegInf)
    IN  Rows([n \in 1..Len(idx) |->
                [tok |-> Root(k[idx[n] + 1].k), pos |-> k[idx[n] + 1].pos,
                 vtok |-> Root(v[idx[n] + 1].v)]])

\* DecoderLayer.forward from "Scaled dot-product attention" on: k and v are
\* the concatenated cache, causal_mask the layer's mask
AttentionAndFFN(h, pos, k, v, causal_mask) ==
    [h |-> Rows([q \in 1..Len(h) |->
                   [res |-> h[q], q_pos |-> pos[q],
                    att |-> Attend(k, v, causal_mask[q - 1])]]),
     present_key |-> k, present_value |-> v, mask |-> causal_mask]

\* DecoderLayer.forward(h, cos, sin, past_key, past_value); cos/sin are
\* determined by position_ids, passed here as pos.
DecoderLayerForward(h, pos, past_key, past_value) ==
    LET S == Len(h)
        k_new == [q \in 1..S |-> [k |-> h[q], pos |-> pos[q]]]
        v_new == [q \in 1..S |-> [v |-> h[q]]]
        k == CatPast(past_key, k_new)
        v == CatPast(past_value, v_new)
        total_len == Len(k)
    IN  AttentionAndFFN(h, pos, k, v, CausalMask(S, total_len))

\* the loop of Qwen3ASRDecoder.forward over self.layers, from layer i on;
\* Collect is the loop body after the call of layer i, r its result
RECURSIVE RunLayers(_, _, _, _, _, _)
Collect(i, r, pos, past_kv_flat, present_kvs, masks) ==
    RunLayers(i + 1, r.h, pos, past_kv_flat,
              present_kvs \o <<r.present_key, r.present_value>>,
              Append(masks, r.mask))

RunLayers(i, h, pos, past_kv_flat, present_kvs, masks) ==
    IF i = dec_layers
    THEN [h |-> h, present_kvs |-> present_kvs, masks |-> masks]
    ELSE LET past_key == past_kv_flat[i * 2 + 1]
             past_value == past_kv_flat[i * 2 + 2]
         IN  Collect(i, DecoderLayerForward(h, pos, past_key, past_value),
                     pos, past_kv_flat, present_kvs, masks)

\* the return statement of Qwen3ASRDecoder.forward: (logits, *present_kvs);
\* masks is kept for inspection
Return(r) ==
    [out |-> <<Rows([q \in 1..Len(r.h) |-> [lm |-> r.h[q]]])>> \o r.present_kvs,
     masks |-> r.masks]

\* Qwen3ASRDecoder.forward(inputs_embeds, position_ids, *past_kv_flat)
DecoderForward(inputs_embeds, position_ids, past_kv_flat) ==
    Return(RunLayers(0, inputs_embeds, position_ids, past_kv_flat, <<>>, <<>>))

\* torch.zeros(1, n_kv_heads, past_len, head_dim) with past_len = 0, per layer
EmptyPast == [n \in 1..(2 * dec_layers) |-> <<>>]

\* torch.arange(past_len, past_len + seq_len)
Arange(past_len, seq_len) == Rows([q \in 1..seq_len |-> past_len + q - 1])

Embeds(ts) == Rows([q \in 1..Len(ts) |-> [emb |-> ts[q]]])

SeqsOf(S, n) == [1..n -> S]

DecInit ==
    /\ past_kvs = EmptyPast
    /\ toks = <<>>
    /\ steps = <<>>
    /\ logits_hist = <<>>
    /\ lastPast = EmptyPast
    /\ lastS = 0
    /\ lastOut = <<>>
    /\ lastMasks = <<>>

\* A new generation session: the caller starts again from the empty cache.
StartSession ==
    /\ toks # <<>>
    /\ past_kvs' = EmptyPast
    /\ toks' = <<>>
    /\ steps' = <<>>
    /\ logits_hist' = <<>>
    /\ lastPast' = EmptyPast
    /\ lastS' = 0
    /\ lastOut' = <<>>
    /\ lastMasks' = <<>>
    /\ UNCHANGED runVars
    /\ UNCHANGED shapeVars

\* the caller's bookkeeping after a call that returned r for the tokens ts
KeepResult(r, ts) ==
    /\ lastPast' = past_kvs
    /\ lastS' = Len(ts)
    /\ lastOut' = r.out
    /\ lastMasks' = r.masks
    /\ past_kvs' = SubSeq(r.out, 2, Len(r.out))
    /\ logits_hist' = logits_hist \o r.out[1]
    /\ toks' = toks \o ts
    /\ steps' = Append(steps, Len(ts))

\* One call of the decoder with S new tokens; the caller passes the cache it
\* holds as past and keeps the returned present cache for the next call.
DecodeStep ==
    \E S \in 1..MaxTotal :
        /\ Len(toks) + S <= MaxTotal
        /\ \E ts \in SeqsOf(Tokens, S) :
              KeepResult(DecoderForward(Embeds(ts), Arange(Len(past_kvs[1]), S), past_kvs), ts)
        /\ UNCHANGED runVars
        /\ UNCHANGED shapeVars

NoError == [type |-> "none", name |-> ""]

NoIO == [input_names |-> <<>>, output_names |-> <<>>, ort_inputs |-> <<>>]

NoModule == [alive |-> FALSE, params |-> <<>>]

(***************************************************************************)
(* Shapes: the encoder's convolutional stem and the head axis of one       *)
(* decoder layer.                                                          *)
(***************************************************************************)
\* the mel input is [1, 128, T]
MelBins == 128

NoStem == [called |-> FALSE]
NoGQA == [called |-> FALSE]
NoHeads == [n_heads |-> 0, n_kv_heads |-> 0]

\* variant: the convolution is not padded
ConvLen_nopad(n) == (n - 3) \div 2 + 1

\* output length of nn.Conv2d(.., 3, stride=2, padding=1) along one axis:
\* floor((n + 2*padding - kernel_size) / stride) + 1
ConvLen(n) == (n + 2 * 1 - 3) \div 2 + 1

\* self.conv2dN(x) on x of shape [1, C, F, T]: out_channels, both axes convolved
Conv2d(x, out_channels) ==
    [C |-> out_channels, F |-> ConvLen(x.F), T |-> ConvLen(x.T)]

\* in_features of self.conv_out
conv_out_dim == enc_downsample_hidden * 16

\* Qwen3ASREncoder.forward up to self.conv_out(x): unsqueeze, three
\* convolutions, permute/view to [1, T', C*Fr], then the linear layer, which
\* needs the last axis to be its in_features
EncoderStemForward(T) ==
    LET x0 == [C |-> 1, F |-> MelBins, T |-> T]
        x1 == Conv2d(x0, enc_downsample_hidden)
        x2 == Conv2d(x1, enc_downsample_hidden)
        x3 == Conv2d(x2, enc_downsample_hidden)
        flat == x3.C * x3.F
    IN  [called |-> TRUE, T_in |-> T, C |-> x3.C, Fr |-> x3.F, T |-> x3.T,
         flat |-> flat, in_features |-> conv_out_dim,
         raised |-> flat # conv_out_dim]

\* one call encoder(mel) with mel of T frames
EncoderStem ==
    /\ mel_frames > 0 /\ ~stem.called
    /\ stem' = EncoderStemForward(mel_frames)
    /\ UNCHANGED <<mel_frames, head_cfg, gqa>>
    /\ UNCHANGED decVars
    /\ UNCHANGED runVars

\* self.gqa_ratio = n_heads // n_kv_heads
gqa_ratio(n_heads, n_kv_heads) == n_heads \div n_kv_heads

\* variant: the whole head axis r times over (Tensor.repeat)
RECURSIVE repeat_interleave_tiled(_, _)
repeat_interleave_tiled(x, r) ==
    IF r = 0 THEN <<>> ELSE x \o repeat_interleave_tiled(x, r - 1)

\* Tensor.repeat_interleave(r, dim=1): every head r times in a row, heads in order
RECURSIVE repeat_interleave(_, _)
repeat_interleave(x, r) ==
    IF x = <<>> THEN <<>>
    ELSE [n \in 1..r |-> Head(x)] \o repeat_interleave(Tail(x), r)

\* torch.matmul(q, k.transpose(-2, -1)) over the head axis: head h of q with
\* head h of k; the head counts must agree
MatmulHeads(q, k) ==
    IF Len(q) # Len(k)
    THEN [raised |-> TRUE, pairs |-> <<>>]
    ELSE [raised |-> FALSE, pairs |-> [h \in 1..Len(q) |-> [q |-> q[h], k |-> k[h]]]]

\* DecoderLayer.forward along the head axis, from the projections to the
\* attention scores: q has n_heads heads, k has n_kv_heads heads; the present
\* cache is taken before the expansion
AttentionHeads(n_heads, n_kv_heads) ==
    LET ratio == gqa_ratio(n_heads, n_kv_heads)
        q == [h \in 1..n_heads |-> h - 1]
        k == [j \in 1..n_kv_heads |-> j - 1]
        present_key == k
        k_exp == IF ratio > 1 THEN repeat_interleave(k, ratio) ELSE k
        w == MatmulHeads(q, k_exp)
    IN  [called |-> TRUE, ratio |-> ratio, k |-> k, present_key |-> present_key,
         k_exp |-> k_exp, raised |-> w.raised, pairs |-> w.pairs]

\* one call of a decoder layer built with head_cfg
GQAAttention ==
    /\ head_cfg # NoHeads /\ ~gqa.called
    /\ gqa' = AttentionHeads(head_cfg.n_heads, head_cfg.n_kv_heads)
    /\ UNCHANGED <<mel_frames, stem, head_cfg>>
    /\ UNCHANGED decVars
    /\ UNCHANGED runVars

\* neither call is made in the other specifications
ShapeIdle ==
    /\ mel_frames = 0
    /\ stem = NoStem
    /\ head_cfg = NoHeads
    /\ gqa = NoGQA

\* the inputs: T >= 1 frames, and head counts with n_heads a multiple of
\* n_kv_heads
ShapeInit ==
    /\ mel_frames \in 1..MaxFrames
    /\ stem = NoStem
    /\ \E kv \in 1..MaxKVHeads, r \in 1..MaxRatio :
          head_cfg = [n_heads |-> kv * r, n_kv_heads |-> kv]
    /\ gqa = NoGQA

\* the export run is not started in the decoder-session specification
RunIdle ==
    /\ pc = "idle"
    /\ skip_validation = FALSE
    /\ missing = {}
    /\ dtype = "float32"
    /\ weight_dtypes = {}
    /\ embed_bytes = -1
    /\ encoder = NoModule
    /\ decoder = NoModule
    /\ fetched = <<>>
    /\ files = {}
    /\ serialized = <<>>
    /\ dec_io = NoIO
    /\ enc_diff = <<>>
    /\ dec_diffs = <<>>
    /\ warnings = {}
    /\ manifest = {}
    /\ error = NoError
    /\ exitcode = -1

InitDecoder == DecInit /\ RunIdle /\ ShapeIdle

NextDecoder == StartSession \/ DecodeStep

SpecDecoder == InitDecoder /\ [][NextDecoder]_vars

(***************************************************************************)
(* Weight store and binder.                                                *)
(***************************************************************************)
\* nn.Conv2d / nn.LayerNorm / nn.Linear(bias=True): weight and bias;
\* nn.Linear(bias=False) / RMSNorm: weight only
WB(n) == {n \o ".weight", n \o ".bias"}
W(n) == {n \o ".weight"}

\* EncoderAttentionLayer.__init__, as attribute paths under encoder.layers[i]
EncoderLayerParams(i) ==
    LET p == "layers." \o ToString(i) \o "."
    IN  WB(p \o "self_attn_layer_norm") \cup WB(p \o "q_proj") \cup WB(p \o "k_proj")
        \cup WB(p \o "v_proj") \cup WB(p \o "out_proj")
        \cup WB(p \o "final_layer_norm") \cup WB(p \o "fc1") \cup WB(p \o "fc2")

\* Qwen3ASREncoder.__init__: every nn.Parameter of the module
EncoderParams ==
    WB("conv2d1") \cup WB("conv2d2") \cup WB("conv2d3") \cup W("conv_out")
    \cup UNION {EncoderLayerParams(i) : i \in 0..(enc_layers - 1)}
    \cup WB("ln_post") \cup WB("proj1") \cup WB("proj2")

\* DecoderLayer.__init__, as attribute paths under decoder.layers[i]
DecoderLayerParams(i) ==
    LET p == "layers." \o ToString(i) \o "."
    IN  W(p \o "input_layernorm") \cup W(p \o "q_proj") \cup W(p \o "k_proj")
        \cup W(p \o "v_proj") \cup W(p \o "o_proj") \cup W(p \o "q_norm")
        \cup W(p \o "k_norm") \cup W(p \o "post_attention_layernorm")
        \cup W(p \o "gate_proj") \cup W(p \o "up_proj") \cup W(p \o "down_proj")

\* Qwen3ASRDecoder.__init__: every nn.Parameter of the module
DecoderParams ==
    UNION {DecoderLayerParams(i) : i \in 0..(dec_layers - 1)}
    \cup W("norm") \cup W("lm_head")

\* one assignment  <module>.<attr>.data = get_weight(sf, <name>)
B(attr, name) == [attr |-> attr, name |-> name]

Same(prefix, ns) == [n \in 1..Len(ns) |-> B(ns[n], prefix \o "." \o ns[n])]

EncPrefix == "thinker.audio_tower"

EncLayerBindings(i) ==
    LET a == "layers." \o ToString(i) \o "."
        lp == EncPrefix \o ".layers." \o ToString(i) \o "."
    IN  << B(a \o "self_attn_layer_norm.weight", lp \o "self_attn_layer_norm.weight"),
           B(a \o "self_attn_layer_norm.bias", lp \o "self_attn_layer_norm.bias"),
           B(a \o "q_proj.weight", lp \o "self_attn.q_proj.weight"),
           B(a \o "q_proj.bias", lp \o "self_attn.q_proj.bias"),
           B(a \o "k_proj.weight", lp \o "self_attn.k_proj.weight"),
           B(a \o "k_proj.bias", lp \o "self_attn.k_proj.bias"),
           B(a \o "v_proj.weight", lp \o "self_attn.v_proj.weight"),
           B(a \o "v_proj.bias", lp \o "self_attn.v_proj.bias"),
           B(a \o "out_proj.weight", lp \o "self_attn.out_proj.weight"),
           B(a \o "out_proj.bias", lp \o "self_attn.out_proj.bias"),
           B(a \o "final_layer_norm.weight", lp \o "final_layer_norm.weight"),
           B(a \o "final_layer_norm.bias", lp \o "final_layer_norm.bias"),
           B(a \o "fc1.weight", lp \o "fc1.weight"),
           B(a \o "fc1.bias", lp \o "fc1.bias"),
           B(a \o "fc2.weight", lp \o "fc2.weight"),
           B(a \o "fc2.bias", lp \o "fc2.bias") >>

\* for i in range(cfg["enc_layers"]), from layer i on
RECURSIVE EncLayersFrom(_)
EncLayersFrom(i) ==
    IF i >= enc_layers THEN <<>> ELSE EncLayerBindings(i) \o EncLayersFrom(i + 1)

\* load_encoder_weights: the assignments in program order
EncBindings ==
    Same(EncPrefix, <<"conv2d1.weight", "conv2d1.bias", "conv2d2.weight", "conv2d2.bias",
                      "conv2d3.weight", "conv2d3.bias", "conv_out.weight">>)
    \o EncLayersFrom(0)
    \o Same(EncPrefix, <<"ln_post.weight", "ln_post.bias", "proj1.weight", "proj1.bias",
                         "proj2.weight", "proj2.bias">>)

DecPrefix == "thinker.model"

DecLayerBindings(i) ==
    LET a == "layers." \o ToString(i) \o "."
        lp == DecPrefix \o ".layers." \o ToString(i) \o "."
    IN  << B(a \o "input_layernorm.weight", lp \o "input_layernorm.weight"),
           B(a \o "q_proj.weight", lp \o "self_attn.q_proj.weight"),
           B(a \o "k_proj.weight", lp \o "self_attn.k_proj.weight"),
           B(a \o "v_proj.weight", lp \o "self_attn.v_proj.weight"),
           B(a \o "o_proj.weight", lp \o "self_attn.o_proj.weight"),
           B(a \o "q_norm.weight", lp \o "self_attn.q_norm.weight"),
           B(a \o "k_norm.weight", lp \o "self_attn.k_norm.weight"),
           B(a \o "post_attention_layernorm.weight", lp \o "post_attention_layernorm.weight"),
           B(a \o "gate_proj.weight", lp \o "mlp.gate_proj.weight"),
           B(a \o "up_proj.weight", lp \o "mlp.up_proj.weight"),
           B(a \o "down_proj.weight", lp \o "mlp.down_proj.weight") >>

\* for i in range(cfg["dec_layers"]), from layer i on
RECURSIVE DecLayersFrom(_)
DecLayersFrom(i) ==
    IF i >= dec_layers THEN <<>> ELSE DecLayerBindings(i) \o DecLayersFrom(i + 1)

\* load_decoder_weights: the assignments in program order
DecBindings ==
    DecLayersFrom(0)
    \o << B("norm.weight", DecPrefix \o ".norm.weight"),
          B("lm_head.weight", "thinker.lm_head.weight") >>

EmbedName == "thinker.model.embed_tokens.weight"

NamesOf(bindings) == {bindings[n].name : n \in 1..Len(bindings)}
EncNames == NamesOf(EncBindings)
DecNames == NamesOf(DecBindings)
RequiredNames == EncNames \cup DecNames \cup {EmbedName}

\* torch dtypes a checkpoint may be stored in, and their element size in bytes
Dtypes == {"bfloat16", "float16", "float32"}
ItemSize(dt) == IF dt = "float32" THEN 4 ELSE 2

\* variant: the KeyError does not carry the name
get_tensor_noname(sf, name) ==
    IF name \in sf.names
    THEN [raised |-> FALSE, value |-> "store", dtype |-> sf.dtype, error |-> NoError]
    ELSE [raised |-> TRUE, value |-> "", dtype |-> "",
          error |-> [type |-> "KeyError", name |-> "Weight not found"]]

\* MultiSafetensors.get_tensor: the tensor, or KeyError carrying the name
\* (self.weight_map[name] with an index, the final raise without one)
get_tensor(sf, name) ==
    IF name \in sf.names
    THEN [raised |-> FALSE, value |-> "store", dtype |-> sf.dtype, error |-> NoError]
    ELSE [raised |-> TRUE, value |-> "", dtype |-> "",
          error |-> [type |-> "KeyError", name |-> name]]

\* t.float(): the same tensor as float32
float(t) == [t EXCEPT !.dtype = "float32"]

\* variant: an absent tensor is replaced by zeros
get_weight_zerofill(sf, name) ==
    IF name \in sf.names
    THEN float(get_tensor(sf, name))
    ELSE [raised |-> FALSE, value |-> "zero", dtype |-> "float32", error |-> NoError]

\* get_weight: get_tensor's result (an exception propagates), converted with
\* t.float() only when t.dtype == torch.bfloat16
get_weight(sf, name) ==
    LET t == get_tensor(sf, name)
    IN  IF t.raised THEN t
        ELSE IF t.dtype = "bfloat16" THEN float(t) ELSE t

\* the assignments of a load_*_weights function from the n-th on: stops at the
\* first get_weight that raises, leaving the later parameters untouched
RECURSIVE BindFrom(_, _, _, _, _, _)
BindFrom(bindings, n, sf, params, log, dts) ==
    IF n > Len(bindings)
    THEN [params |-> params, fetched |-> log, dtypes |-> dts, error |-> NoError]
    ELSE LET b == bindings[n]
             t == get_weight(sf, b.name)
         IN  IF t.raised
             THEN [params |-> params, fetched |-> Append(log, b.name), dtypes |-> dts,
                   error |-> t.error]
             ELSE BindFrom(bindings, n + 1, sf,
                           [params EXCEPT ![b.attr] = t.value], Append(log, b.name),
                           dts \cup {t.dtype})

load_encoder_weights(params, sf, log, dts) == BindFrom(EncBindings, 1, sf, params, log, dts)

load_decoder_weights(params, sf, log, dts) == BindFrom(DecBindings, 1, sf, params, log, dts)

(***************************************************************************)
(* Export and validation.                                                  *)
(***************************************************************************)
\* the tolerance 1e-4 of both asserts, in units of 1e-5
Tol == 10
DiffVals == {Tol - 1, Tol, Tol + 1}

\* variant: assert diff <= 1e-4
ValidationPasses_le(diff) == diff <= Tol

\* assert diff < 1e-4
ValidationPasses(diff) == diff < Tol

\* the loop building input_names / output_names in export_decoder
RECURSIVE DecInputNames(_)
DecInputNames(i) ==
    IF i >= dec_layers THEN <<>>
    ELSE << "past_key_values." \o ToString(i) \o ".key",
            "past_key_values." \o ToString(i) \o ".value" >> \o DecInputNames(i + 1)

RECURSIVE DecOutputNames(_)
DecOutputNames(i) ==
    IF i >= dec_layers THEN <<>>
    ELSE << "present_key_values." \o ToString(i) \o ".key",
            "present_key_values." \o ToString(i) \o ".value" >> \o DecOutputNames(i + 1)

input_names == <<"inputs_embeds", "position_ids">> \o DecInputNames(0)
output_names == <<"logits">> \o DecOutputNames(0)

\* the keys of ort_inputs, in insertion order
RECURSIVE OrtPastNames(_)
OrtPastNames(i) ==
    IF i >= dec_layers THEN <<>>
    ELSE << "past_key_values." \o ToString(i) \o ".key",
            "past_key_values." \o ToString(i) \o ".value" >> \o OrtPastNames(i + 1)

ort_inputs == <<"inputs_embeds", "position_ids">> \o OrtPastNames(0)

\* an uncaught exception ends the process with a traceback and status 1
Abort(e) ==
    /\ error' = e
    /\ exitcode' = 1

Running == exitcode = -1

RECURSIVE SubsetsUpTo(_, _)
SubsetsUpTo(S, k) ==
    IF k = 0 THEN {{}}
    ELSE LET P == SubsetsUpTo(S, k - 1)
         IN  P \cup {p \cup {x} : p \in P, x \in S}

\* sf = MultiSafetensors(model_dir): the tensor names the store holds
store == [names |-> RequiredNames \ missing, dtype |-> dtype]

(***************************************************************************)
(* main(): one action per statement group.                                 *)
(***************************************************************************)
RunInit ==
    /\ pc = "build_encoder"
    /\ skip_validation \in BOOLEAN
    /\ missing \in SubsetsUpTo(RequiredNames, MaxMissing)
    /\ dtype \in Dtypes
    /\ weight_dtypes = {}
    /\ embed_bytes = -1
    /\ encoder = NoModule
    /\ decoder = NoModule
    /\ fetched = <<>>
    /\ files = {}
    /\ serialized = <<>>
    /\ dec_io = NoIO
    /\ enc_diff = <<>>
    /\ dec_diffs = <<>>
    /\ warnings = {}
    /\ manifest = {}
    /\ error = NoError
    /\ exitcode = -1

\* encoder = Qwen3ASREncoder(cfg)
BuildEncoder ==
    /\ Running /\ pc = "build_encoder"
    /\ encoder' = [alive |-> TRUE, params |-> [a \in EncoderParams |-> "default"]]
    /\ pc' = "load_encoder"
    /\ UNCHANGED <<skip_validation, missing, dtype, decoder, fetched, files, serialized, dec_io,
                   enc_diff, dec_diffs, warnings, manifest, error, exitcode>>
    /\ UNCHANGED <<weight_dtypes, embed_bytes>>
    /\ UNCHANGED decVars
    /\ UNCHANGED shapeVars

\* load_encoder_weights(encoder, sf, cfg)
LoadEncoderWeights ==
    /\ Running /\ pc = "load_encoder"
    /\ LET r == load_encoder_weights(encoder.params, store, fetched, weight_dtypes)
       IN  /\ encoder' = [encoder EXCEPT !.params = r.params]
           /\ fetched' = r.fetched
           /\ weight_dtypes' = r.dtypes
           /\ IF r.error.type = "none"
              THEN pc' = "export_encoder" /\ UNCHANGED <<error, exitcode>>
              ELSE pc' = pc /\ Abort(r.error)
    /\ UNCHANGED <<skip_validation, missing, dtype, decoder, files, serialized, dec_io,
                   enc_diff, dec_diffs, warnings, manifest>>
    /\ UNCHANGED embed_bytes
    /\ UNCHANGED decVars
    /\ UNCHANGED shapeVars

\* export_encoder(encoder, cfg, args.output_dir): torch.onnx.export writes the
\* file, then the single output is compared with onnxruntime's
ExportEncoder ==
    /\ Running /\ pc = "export_encoder"
    /\ files' = files \cup {"encoder.onnx"}
    /\ serialized' = serialized @@ ("encoder.onnx" :> encoder.params)
    /\ \E diff \in DiffVals :
        /\ enc_diff' = <<diff>>
        /\ IF ValidationPasses(diff)
           THEN pc' = "release_encoder" /\ UNCHANGED <<error, exitcode>>
           ELSE pc' = pc /\ Abort([type |-> "AssertionError", name |-> "Encoder validation failed"])
    /\ UNCHANGED <<skip_validation, missing, dtype, encoder, decoder, fetched, dec_io,
                   dec_diffs, warnings, manifest>>
    /\ UNCHANGED <<weight_dtypes, embed_bytes>>
    /\ UNCHANGED decVars
    /\ UNCHANGED shapeVars

\* variant: the encoder is kept when the decoder stage begins
ReleaseEncoder_keep ==
    /\ Running /\ pc = "release_encoder"
    /\ pc' = "build_decoder"
    /\ UNCHANGED <<skip_validation, missing, dtype, encoder, decoder, fetched, files,
                   serialized, dec_io, enc_diff, dec_diffs, warnings, manifest, error, exitcode>>
    /\ UNCHANGED <<weight_dtypes, embed_bytes>>
    /\ UNCHANGED decVars
    /\ UNCHANGED shapeVars

\* del encoder
ReleaseEncoder ==
    /\ Running /\ pc = "release_encoder"
    /\ encoder' = NoModule
    /\ pc' = "build_decoder"
    /\ UNCHANGED <<skip_validation, missing, dtype, decoder, fetched, files, serialized, dec_io,
                   enc_diff, dec_diffs, warnings, manifest, error, exitcode>>
    /\ UNCHANGED <<weight_dtypes, embed_bytes>>
    /\ UNCHANGED decVars
    /\ UNCHANGED shapeVars

\* decoder = Qwen3ASRDecoder(cfg)
BuildDecoder ==
    /\ Running /\ pc = "build_decoder"
    /\ decoder' = [alive |-> TRUE, params |-> [a \in DecoderParams |-> "default"]]
    /\ pc' = "load_decoder"
    /\ UNCHANGED <<skip_validation, missing, dtype, encoder, fetched, files, serialized, dec_io,
                   enc_diff, dec_diffs, warnings, manifest, error, exitcode>>
    /\ UNCHANGED <<weight_dtypes, embed_bytes>>
    /\ UNCHANGED decVars
    /\ UNCHANGED shapeVars

\* load_decoder_weights(decoder, sf, cfg)
LoadDecoderWeights ==
    /\ Running /\ pc = "load_decoder"
    /\ LET r == load_decoder_weights(decoder.params, store, fetched, weight_dtypes)
       IN  /\ decoder' = [decoder EXCEPT !.params = r.params]
           /\ fetched' = r.fetched
           /\ weight_dtypes' = r.dtypes
           /\ IF r.error.type = "none"
              THEN pc' = "export_decoder" /\ UNCHANGED <<error, exitcode>>
              ELSE pc' = pc /\ Abort(r.error)
    /\ UNCHANGED <<skip_validation, missing, dtype, encoder, files, serialized, dec_io,
                   enc_diff, dec_diffs, warnings, manifest>>
    /\ UNCHANGED embed_bytes
    /\ UNCHANGED decVars
    /\ UNCHANGED shapeVars

\* export_decoder(decoder, cfg, args.output_dir): torch.onnx.export writes the
\* file under input_names/output_names; then only output 0 (the logits) of the
\* 1 + 2*n_layers outputs is compared
ExportDecoder ==
    /\ Running /\ pc = "export_decoder"
    /\ files' = files \cup {"decoder.onnx"}
    /\ serialized' = serialized @@ ("decoder.onnx" :> decoder.params)
    /\ dec_io' = [input_names |-> input_names, output_names |-> output_names,
                  ort_inputs |-> ort_inputs]
    /\ \E diffs \in [1..(1 + 2 * dec_layers) -> DiffVals] :
        /\ dec_diffs' = diffs
        /\ IF ValidationPasses(diffs[1])
           THEN pc' = "release_decoder" /\ UNCHANGED <<error, exitcode>>
           ELSE pc' = pc /\ Abort([type |-> "AssertionError", name |-> "Decoder validation failed"])
    /\ UNCHANGED <<skip_validation, missing, dtype, encoder, decoder, fetched,
                   enc_diff, warnings, manifest>>
    /\ UNCHANGED <<weight_dtypes, embed_bytes>>
    /\ UNCHANGED decVars
    /\ UNCHANGED shapeVars

\* del decoder
ReleaseDecoder ==
    /\ Running /\ pc = "release_decoder"
    /\ decoder' = NoModule
    /\ pc' = "export_embeddings"
    /\ UNCHANGED <<skip_validation, missing, dtype, encoder, fetched, files, serialized, dec_io,
                   enc_diff, dec_diffs, warnings, manifest, error, exitcode>>
    /\ UNCHANGED <<weight_dtypes, embed_bytes>>
    /\ UNCHANGED decVars
    /\ UNCHANGED shapeVars

\* the shape of thinker.model.embed_tokens.weight in the checkpoint
EmbedShape == <<vocab_size, hidden_size>>

\* embed.numpy(): an array of the tensor's shape and dtype
numpy(t, shape) == [shape |-> shape, dtype |-> t.dtype]

\* variant: the array is written in the dtype it has
astype_keep(a, dt) == a

\* ndarray.astype(np.float32): the same elements in the given dtype
astype(a, dt) == [a EXCEPT !.dtype = dt]

\* ndarray.tofile: the elements in C order and nothing else; the byte length
tofile(a) == a.shape[1] * a.shape[2] * ItemSize(a.dtype)

\* export_embeddings: byte length of the blob, or the KeyError of get_weight
export_embeddings(sf) ==
    LET embed == get_weight(sf, EmbedName)
    IN  IF embed.raised
        THEN [raised |-> TRUE, dtype |-> "", bytes |-> -1, error |-> embed.error]
        ELSE [raised |-> FALSE, dtype |-> embed.dtype,
              bytes |-> tofile(astype(numpy(embed, EmbedShape), "float32")),
              error |-> NoError]

\* export_embeddings(sf, args.output_dir)
ExportEmbeddings ==
    /\ Running /\ pc = "export_embeddings"
    /\ LET r == export_embeddings(store)
       IN  /\ fetched' = Append(fetched, EmbedName)
           /\ IF r.raised
              THEN pc' = pc /\ Abort(r.error) /\ UNCHANGED <<files, weight_dtypes, embed_bytes>>
              ELSE /\ files' = files \cup {"embed_tokens.bin"}
                   /\ weight_dtypes' = weight_dtypes \cup {r.dtype}
                   /\ embed_bytes' = r.bytes
                   /\ pc' = "copy_tokenizer"
                   /\ UNCHANGED <<error, exitcode>>
    /\ UNCHANGED <<skip_validation, missing, dtype, encoder, decoder, serialized, dec_io,
                   enc_diff, dec_diffs, warnings, manifest>>
    /\ UNCHANGED decVars
    /\ UNCHANGED shapeVars

TokenizerList == <<"vocab.json", "merges.txt">>
TokenizerFiles == {TokenizerList[n] : n \in 1..Len(TokenizerList)}

\* variant: a missing file is passed over silently
CopyOne_silent(fname, present, acc) ==
    IF fname \in present
    THEN [acc EXCEPT !.copied = @ \cup {fname}]
    ELSE acc

\* one iteration of the loop: shutil.copy2 when os.path.exists(src), a
\* WARNING line otherwise
CopyOne(fname, present, acc) ==
    IF fname \in present
    THEN [acc EXCEPT !.copied = @ \cup {fname}]
    ELSE [acc EXCEPT !.warned = @ \cup {fname}]

\* for fname in ["vocab.json", "merges.txt"], from the n-th name on
RECURSIVE CopyLoop(_, _, _)
CopyLoop(n, present, acc) ==
    IF n > Len(TokenizerList) THEN acc
    ELSE CopyLoop(n + 1, present, CopyOne(TokenizerList[n], present, acc))

\* the tokenizer loop of main; present: the names that exist in model_dir
CopyTokenizer ==
    /\ Running /\ pc = "copy_tokenizer"
    /\ \E present \in SUBSET TokenizerFiles :
        LET r == CopyLoop(1, present, [copied |-> {}, warned |-> {}])
        IN  /\ files' = files \cup r.copied
            /\ warnings' = r.warned
    /\ pc' = "manifest"
    /\ UNCHANGED <<skip_validation, missing, dtype, encoder, decoder, fetched, serialized, dec_io,
                   enc_diff, dec_diffs, manifest, error, exitcode>>
    /\ UNCHANGED <<weight_dtypes, embed_bytes>>
    /\ UNCHANGED decVars
    /\ UNCHANGED shapeVars

\* the final listing of output_dir; main returns and the process exits 0
Manifest ==
    /\ Running /\ pc = "manifest"
    /\ manifest' = files
    /\ pc' = "done"
    /\ exitcode' = 0
    /\ UNCHANGED <<skip_validation, missing, dtype, encoder, decoder, fetched, files, serialized,
                   dec_io, enc_diff, dec_diffs, warnings, error>>
    /\ UNCHANGED <<weight_dtypes, embed_bytes>>
    /\ UNCHANGED decVars
    /\ UNCHANGED shapeVars

Init == DecInit /\ RunInit /\ ShapeIdle

Next ==
    \/ BuildEncoder
    \/ LoadEncoderWeights
    \/ ExportEncoder
    \/ ReleaseEncoder
    \/ BuildDecoder
    \/ LoadDecoderWeights
    \/ ExportDecoder
    \/ ReleaseDecoder
    \/ ExportEmbeddings
    \/ CopyTokenizer
    \/ Manifest

Spec == Init /\ [][Next]_vars

InitShapes == DecInit /\ RunIdle /\ ShapeInit

NextShapes == EncoderStem \/ GQAAttention

SpecShapes == InitShapes /\ [][NextShapes]_vars

(***************************************************************************)
(* Claims about the decoder graph (checked under SpecDecoder).             *)
(***************************************************************************)
\* 0-based accessors into the flat tuples of the last call
PastKey(i) == lastPast[2 * i + 1]
PastValue(i) == lastPast[2 * i + 2]
PresentKey(i) == lastOut[2 * i + 2]
PresentValue(i) == lastOut[2 * i + 3]
LayerIds == 0..(dec_layers - 1)
KeyPositions(att) == [m \in 1..Len(att) |-> att[m].pos]

RECURSIVE SumSeq(_)
SumSeq(s) == IF s = <<>> THEN 0 ELSE s[1] + SumSeq(Tail(s))

\* C1: after any call with past length Lp >= 0 and step length S >= 1, the
\* present key and the present value of every layer have cached length
\* exactly Lp + S (so S for a prefill, where Lp = 0).
C1_PresentLength ==
    lastS > 0 =>
        \A i \in LayerIds :
            /\ Len(PresentKey(i)) = Len(PastKey(i)) + lastS
            /\ Len(PresentValue(i)) = Len(PastValue(i)) + lastS
            /\ (Len(PastKey(i)) = 0 => Len(PresentKey(i)) = lastS)

\* a decode call on a non-empty cache: Lp = 3, S = 2, present length 5
C1_Witness ==
    /\ lastS = 2
    /\ \A i \in LayerIds : Len(PastKey(i)) = 3 /\ Len(PresentKey(i)) = 5
                           /\ Len(PresentValue(i)) = 5

\* C2: in every layer's causal mask of the last call, of size [S, Lp + S],
\* key j is masked for query q exactly when j > Lp + q; so no past position
\* is masked, every query sees its own position, and the entries that get
\* attention weight are exactly the cache entries 0..Lp+q.
C2_CausalMask ==
    lastS > 0 =>
        \A i \in LayerIds :
            LET Lp == Len(PastKey(i))
                m == lastMasks[i + 1]
            IN  /\ DOMAIN m = 0..(lastS - 1)
                /\ \A q \in 0..(lastS - 1) :
                    /\ DOMAIN m[q] = 0..(Lp + lastS - 1)
                    /\ \A j \in 0..(Lp + lastS - 1) :
                        /\ (m[q][j] = NegInf) <=> (j > Lp + q)
                        /\ (j < Lp => m[q][j] = Zero)
                    /\ m[q][Lp + q] = Zero
                /\ (i = dec_layers - 1 =>
                     \A q \in 0..(lastS - 1) :
                        lastOut[1][q + 1].lm.att =
                            [n \in 1..(Lp + q + 1) |->
                                [tok |-> toks[n], pos |-> PresentKey(i)[n].pos,
                                 vtok |-> toks[n]]])

\* a multi-token step on a non-empty cache, where a future new-step key is
\* masked for the first query and the whole past is visible
C2_Witness ==
    /\ lastS = 3
    /\ Len(PastKey(0)) = 2
    /\ lastMasks[1][0][3] = NegInf
    /\ lastMasks[1][0][2] = Zero
    /\ lastMasks[1][2][4] = Zero

\* C3: in a session started from the empty cache with the present cache fed
\* back as past, every layer's present cache is the past cache as a prefix
\* followed by the step's new entries, the caller's cache is what the last
\* call returned, and its length is the sum of all step lengths so far.
C3_CacheGrowsByConcat ==
    /\ \A n \in 1..(2 * dec_layers) : Len(past_kvs[n]) = SumSeq(steps)
    /\ (steps = <<>> => past_kvs = EmptyPast)
    /\ lastS > 0 =>
        /\ past_kvs = SubSeq(lastOut, 2, Len(lastOut))
        /\ \A n \in 1..(2 * dec_layers) :
            LET past == lastPast[n]
                present == lastOut[n + 1]
            IN  /\ Len(present) >= Len(past)
                /\ SubSeq(present, 1, Len(past)) = past
                /\ Len(present) - Len(past) = lastS
        /\ \A q \in 1..lastS :
            LET Lp == Len(PastKey(0))
            IN  /\ PresentKey(0)[Lp + q] = [k |-> [emb |-> toks[Lp + q]], pos |-> Lp + q - 1]
                /\ PresentValue(0)[Lp + q] = [v |-> [emb |-> toks[Lp + q]]]

\* scenario B: a prefill of 5 tokens and then one step of 1 gives 6
C3_Witness ==
    /\ steps = <<5, 1>>
    /\ \A n \in 1..(2 * dec_layers) : Len(lastPast[n]) = 5 /\ Len(past_kvs[n]) = 6

\* C4: a sequence fed one token at a time with the cache threaded forward
\* ends with the same cache entries, in the same order, and the same logits
\* terms as one prefill call over the whole sequence; in both runs the token
\* at absolute position p attends exactly the key positions 0..p.
C4_PrefillEqualsStepwise ==
    (steps # <<>> /\ \A n \in 1..Len(steps) : steps[n] = 1) =>
        LET S == Len(toks)
            one == DecoderForward(Embeds(toks), Arange(0, S), EmptyPast)
        IN  /\ Len(steps) = S
            /\ past_kvs = SubSeq(one.out, 2, Len(one.out))
            /\ logits_hist = one.out[1]
            /\ \A i \in LayerIds : Len(past_kvs[2 * i + 1]) = S
            /\ \A p \in 0..(S - 1) :
                /\ past_kvs[1][p + 1] = [k |-> [emb |-> toks[p + 1]], pos |-> p]
                /\ KeyPositions(logits_hist[p + 1].lm.att) = Arange(0, p + 1)
                /\ KeyPositions(one.out[1][p + 1].lm.att) = Arange(0, p + 1)

\* three tokens fed one at a time
C4_Witness ==
    /\ steps = <<1, 1, 1>>
    /\ Len(logits_hist) = 3
    /\ Len(past_kvs[1]) = 3

(***************************************************************************)
(* Claims about the export run (checked under Spec).                       *)
(***************************************************************************)
Last(s) == s[Len(s)]
GraphFiles == {"encoder.onnx", "decoder.onnx"}

\* C5 as stated: a missing weight aborts binding with a KeyError naming it,
\* before any export attempt: nothing serialized, no artifact written.
C5_AbortBeforeAnyExport ==
    error.type = "KeyError" =>
        /\ exitcode = 1
        /\ error.name \in missing
        /\ files = {}
        /\ DOMAIN serialized = {}

\* C5 (amended): a missing weight aborts the run with a KeyError naming it as
\* soon as it is fetched, before any export attempt of the graph that needs
\* it; artifacts of earlier stages are already written (encoder.onnx when a
\* decoder weight is missing), and a run with a missing weight never exits 0.
C5_AbortBeforeOwnExport ==
    /\ error.type = "KeyError" =>
        /\ exitcode = 1
        /\ error.name \in missing
        /\ Last(fetched) = error.name
        /\ pc \in {"load_encoder", "load_decoder", "export_embeddings"}
        /\ (pc = "load_encoder" =>
              error.name \in EncNames /\ files = {} /\ DOMAIN serialized = {})
        /\ (pc = "load_decoder" =>
              /\ error.name \in DecNames
              /\ files = {"encoder.onnx"}
              /\ DOMAIN serialized = {"encoder.onnx"})
        /\ (pc = "export_embeddings" =>
              error.name = EmbedName /\ files = GraphFiles)
    /\ (missing \cap EncNames # {} => "encoder.onnx" \notin files)
    /\ (missing \cap DecNames # {} => "decoder.onnx" \notin files)
    /\ (exitcode = 0 => missing = {})

\* the vocabulary projection is absent: decoder binding aborts on its last
\* fetch, after encoder.onnx was written
C5_Witness ==
    /\ pc = "load_decoder"
    /\ error = [type |-> "KeyError", name |-> "thinker.lm_head.weight"]
    /\ files = {"encoder.onnx"}
    /\ exitcode = 1

StoppedAtFirst(bindings, params, log) ==
    LET k == Len(log)
    IN  /\ k \in 1..Len(bindings)
        /\ \A n \in 1..k : log[n] = bindings[n].name
        /\ \A n \in 1..(k - 1) :
              log[n] \notin missing /\ params[bindings[n].attr] = "store"
        /\ log[k] = error.name
        /\ log[k] \in missing
        /\ \A n \in k..Len(bindings) : params[bindings[n].attr] = "default"

\* C6: binding stops at the first unresolved name of the binding order (the
\* names before it were fetched and bound, none after it is fetched or bound),
\* and every graph file was serialized from a module all of whose
\* constructor-created parameters had been copied from the store.
C6_StopAtFirstNoZeroFill ==
    /\ \A f \in DOMAIN serialized :
        /\ f \in GraphFiles
        /\ DOMAIN serialized[f] = IF f = "encoder.onnx" THEN EncoderParams ELSE DecoderParams
        /\ \A a \in DOMAIN serialized[f] : serialized[f][a] = "store"
    /\ (error.type = "KeyError" /\ pc = "load_encoder" =>
          StoppedAtFirst(EncBindings, encoder.params, fetched))
    /\ (error.type = "KeyError" /\ pc = "load_decoder" =>
          /\ Len(fetched) > Len(EncBindings)
          /\ StoppedAtFirst(DecBindings, decoder.params,
                            SubSeq(fetched, Len(EncBindings) + 1, Len(fetched))))

\* decoder binding aborted in the middle of layer 1: q_proj bound, k_proj and
\* everything after it still at the constructor default
C6_Witness ==
    /\ pc = "load_decoder"
    /\ error.type = "KeyError"
    /\ error.name = "thinker.model.layers.1.self_attn.k_proj.weight"
    /\ decoder.params["layers.1.q_proj.weight"] = "store"
    /\ decoder.params["layers.1.k_proj.weight"] = "default"
    /\ decoder.params["layers.1.v_proj.weight"] = "default"
    /\ decoder.params["lm_head.weight"] = "default"
    /\ "encoder.onnx" \in DOMAIN serialized

\* C7: a validation whose max abs difference is not below the tolerance ends
\* the run with a non-zero exit at that stage, no later stage runs, and the
\* run exits zero only when every stage succeeded.
C7_ValidationFailureIsFatal ==
    /\ (enc_diff # <<>> /\ ~(enc_diff[1] < Tol) =>
          /\ exitcode = 1
          /\ error.type = "AssertionError"
          /\ pc = "export_encoder"
          /\ decoder = NoModule
          /\ files = {"encoder.onnx"}
          /\ dec_diffs = <<>>
          /\ manifest = {})
    /\ (dec_diffs # <<>> /\ ~(dec_diffs[1] < Tol) =>
          /\ exitcode = 1
          /\ error.type = "AssertionError"
          /\ pc = "export_decoder"
          /\ files = GraphFiles
          /\ Len(fetched) = Len(EncBindings) + Len(DecBindings)
          /\ warnings = {}
          /\ manifest = {})
    /\ (error.type # "none" => exitcode = 1)
    /\ (exitcode = 0 =>
          /\ pc = "done"
          /\ error = NoError
          /\ missing = {}
          /\ enc_diff # <<>> /\ enc_diff[1] < Tol
          /\ dec_diffs # <<>> /\ dec_diffs[1] < Tol
          /\ GraphFiles \cup {"embed_tokens.bin"} \subseteq files
          /\ manifest = files)

\* the decoder's logits differ by exactly the tolerance: the run stops there
C7_Witness ==
    /\ pc = "export_decoder"
    /\ error.type = "AssertionError"
    /\ dec_diffs[1] = Tol
    /\ exitcode = 1
    /\ "embed_tokens.bin" \notin files

\* C8: with the skip-validation flag a divergence beyond tolerance is not
\* fatal and the run goes on; without the flag it is fatal.
C8_SkipValidationHonoured ==
    /\ (skip_validation => error.type # "AssertionError")
    /\ (~skip_validation /\ enc_diff # <<>> /\ enc_diff[1] >= Tol =>
          error.type = "AssertionError")

\* C9: every output tensor of the exported graph is compared: a divergence
\* beyond tolerance in any one output (a present cache tensor included) makes
\* the export fail.
C9_EveryOutputCompared ==
    /\ (enc_diff # <<>> /\ enc_diff[1] >= Tol => error.type = "AssertionError")
    /\ (dec_diffs # <<>> /\ (\E n \in DOMAIN dec_diffs : dec_diffs[n] >= Tol) =>
          error.type = "AssertionError")

\* the decoder's input and output names as the module docstring gives them
DocInputName(n) ==
    IF n = 1 THEN "inputs_embeds"
    ELSE IF n = 2 THEN "position_ids"
    ELSE "past_key_values_" \o ToString((n - 3) \div 2)
         \o (IF (n - 3) % 2 = 0 THEN "_key" ELSE "_value")

DocOutputName(n) ==
    IF n = 1 THEN "logits"
    ELSE "present_key_values_" \o ToString((n - 2) \div 2)
         \o (IF (n - 2) % 2 = 0 THEN "_key" ELSE "_value")

\* C10: the decoder graph is exported with 2 + 2L inputs named inputs_embeds,
\* position_ids, past_key_values_{i}_key, past_key_values_{i}_value and 1 + 2L
\* outputs named logits, present_key_values_{i}_key, present_key_values_{i}_value,
\* in layer order, and the validator feeds the graph under the same names.
C10_DecoderIONames ==
    dec_io # NoIO =>
        /\ dec_io.input_names = [n \in 1..(2 + 2 * dec_layers) |-> DocInputName(n)]
        /\ dec_io.output_names = [n \in 1..(1 + 2 * dec_layers) |-> DocOutputName(n)]
        /\ dec_io.ort_inputs = dec_io.input_names

\* C11: a tokenizer file missing from the model directory is reported by a
\* warning and nothing else: every tokenizer file is either copied or warned
\* about (so the other one is still copied when it exists), the run is still
\* running when it reaches the manifest and ends with status 0, and both graph
\* files and the embedding blob are still among the outputs.
C11_MissingTokenizerNonFatal ==
    /\ warnings # {} => pc \in {"manifest", "done"} /\ error = NoError
    /\ pc \in {"manifest", "done"} =>
          /\ warnings \subseteq TokenizerFiles
          /\ files \cap TokenizerFiles = TokenizerFiles \ warnings
          /\ GraphFiles \cup {"embed_tokens.bin"} \subseteq files
          /\ DOMAIN serialized = GraphFiles
          /\ embed_bytes >= 0
    /\ pc = "manifest" => Running
    /\ pc = "done" => exitcode = 0 /\ manifest = files

\* vocab.json was missing, merges.txt was copied, the run ended with status 0
C11_Witness ==
    /\ pc = "done"
    /\ exitcode = 0
    /\ warnings = {"vocab.json"}
    /\ "merges.txt" \in manifest
    /\ "vocab.json" \notin manifest
    /\ GraphFiles \cup {"embed_tokens.bin"} \subseteq manifest

\* C12: every tensor get_weight has handed to a caller is float32, whatever
\* dtype (bfloat16, float16 or float32) the checkpoint stores.
C12_FetchReturnsFloat32 ==
    \A d \in weight_dtypes : d = "float32"

\* C14: embed_tokens.bin, once written, is vocab_size * hidden_size * 4 bytes
\* long (the elements only, no header), whatever dtype the checkpoint stores.
C14_EmbedBlobSize ==
    /\ "embed_tokens.bin" \in files => embed_bytes = vocab_size * hidden_size * 4
    /\ "embed_tokens.bin" \notin files => embed_bytes = -1

\* the blob was written from a float16 checkpoint
C14_Witness ==
    /\ "embed_tokens.bin" \in files
    /\ dtype = "float16"
    /\ embed_bytes = vocab_size * hidden_size * 4
    /\ embed_bytes # vocab_size * hidden_size * ItemSize(dtype)

\* every parameter of the set was copied from the store, or none was
AllOrNone(params, attrs) ==
    \/ \A a \in attrs : params[a] = "store"
    \/ \A a \in attrs : params[a] # "store"

\* C15: in every state each layer of a live graph has either all of its
\* parameters bound from the store or none of them.
C15_AllOrNothingPerLayer ==
    /\ encoder.alive =>
          \A i \in 0..(enc_layers - 1) : AllOrNone(encoder.params, EncoderLayerParams(i))
    /\ decoder.alive =>
          \A i \in 0..(dec_layers - 1) : AllOrNone(decoder.params, DecoderLayerParams(i))

\* C16: the encoder and the decoder module are never alive together; while
\* the decoder is alive the encoder graph has been written and its module
\* deleted; when the embedding tensor is fetched neither module is alive.
C16_AtMostOneGraphAlive ==
    /\ ~(encoder.alive /\ decoder.alive)
    /\ decoder.alive => "encoder.onnx" \in files /\ encoder = NoModule
    /\ pc \in {"export_embeddings", "copy_tokenizer", "manifest", "done"} =>
          encoder = NoModule /\ decoder = NoModule
    /\ EmbedName \in {fetched[n] : n \in 1..Len(fetched)} =>
          encoder = NoModule /\ decoder = NoModule

\* the decoder is alive and bound after the encoder was exported and deleted
C16_Witness ==
    /\ pc = "export_decoder"
    /\ decoder.alive
    /\ \A a \in DecoderParams : decoder.params[a] = "store"
    /\ ~encoder.alive
    /\ "encoder.onnx" \in files

(***************************************************************************)
(* Claims about shapes (checked under SpecShapes).                         *)
(***************************************************************************)
\* C13: each stride-2 stage maps an axis of length n to floor((n-1)/2)+1; the
\* stem turns the 128 mel bins into 16 and T frames into ceil(T/8) time steps
\* for every T >= 1 (25 for T = 200), and the flattened width C*Fr equals the
\* in_features of conv_out, C*16, so the linear layer accepts it.
C13_ConvStemShapes ==
    /\ \A n \in 1..MaxFrames : ConvLen(n) = (n - 1) \div 2 + 1
    /\ stem.called =>
          /\ stem.T_in = mel_frames
          /\ stem.Fr = 16
          /\ stem.T = (stem.T_in + 7) \div 8
          /\ (stem.T_in = 200 => stem.T = 25)
          /\ stem.C = enc_downsample_hidden
          /\ stem.flat = stem.C * stem.Fr
          /\ stem.flat = stem.in_features
          /\ stem.in_features = stem.C * 16
          /\ ~stem.raised

\* the encoder was called with the 200 frames of the export's dummy input
C13_Witness ==
    /\ stem.called
    /\ stem.T_in = 200
    /\ stem.T = 25
    /\ stem.Fr = 16
    /\ stem.flat = enc_downsample_hidden * 16

\* C17: with r = n_heads / n_kv_heads, the expanded key heads are n_heads many
\* and query head h is multiplied with key/value head floor(h / r); r = 1
\* leaves the heads as they are; the present cache holds the n_kv_heads
\* unexpanded heads.
C17_GQAExpansion ==
    gqa.called =>
        LET r == head_cfg.n_heads \div head_cfg.n_kv_heads
        IN  /\ head_cfg.n_heads = r * head_cfg.n_kv_heads
            /\ gqa.ratio = r
            /\ ~gqa.raised
            /\ Len(gqa.k_exp) = head_cfg.n_heads
            /\ Len(gqa.pairs) = head_cfg.n_heads
            /\ \A h \in 0..(head_cfg.n_heads - 1) :
                  gqa.pairs[h + 1] = [q |-> h, k |-> h \div r]
            /\ (r = 1 => gqa.k_exp = gqa.k)
            /\ gqa.present_key = gqa.k
            /\ gqa.present_key = [j \in 1..head_cfg.n_kv_heads |-> j - 1]

\* 4 query heads over 2 key/value heads: heads 0,1 use kv head 0, heads 2,3
\* use kv head 1
C17_Witness ==
    /\ gqa.called
    /\ head_cfg = [n_heads |-> 4, n_kv_heads |-> 2]
    /\ gqa.k_exp = <<0, 0, 1, 1>>
    /\ gqa.present_key = <<0, 1>>

=============================================================================
